---- MODULE Spec2Model ----
(***************************************************************************)
(* Model of the slide layout and content-fitting engine of the PowerPoint  *)
(* generator: src/src/presentation_generator.py (PresentationGenerator)    *)
(* and src/src/template_analyzer.py (TemplateAnalyzer).                    *)
(*                                                                         *)
(* Lengths are EMU integers as python-pptx uses them (Inches(1) = 914400,  *)
(* Pt(1) = 12700).  A text is modelled by what the code inspects of it:    *)
(* a content item by its Python type and its length, a colour string and a *)
(* layout name by their characters.                                        *)
(***************************************************************************)
EXTENDS Integers, Sequences, FiniteSets, TLC

VARIABLES
    fn_in,          \* arguments of the function under test (pure-function specifications)
    fn_out,         \* its return value
    fn_done,        \* whether the function has been applied
    pc,             \* position of a generation request
    template,       \* the uploaded template file
    outline,        \* structure['slides'] as the text-model service returned it
    user_images,    \* self.user_images: the uploaded image files, in order
    layout_info,    \* TemplateAnalyzer.layout_info['layouts']
    presentation,   \* the document being built: its layouts and its slides
    loop_i,         \* i of the build loop: the outline slides it has finished
    image_index,    \* the image cursor of the build loop
    tmp_file,       \* the file at the allocated temporary path
    error,          \* the operation whose exception reached the caller of generate
    uploads,        \* app.config['UPLOAD_FOLDER']: the request that wrote each file
    handlers        \* the calls of generate_presentation (app.py) in progress

fnVars == <<fn_in, fn_out, fn_done>>

deckVars == <<pc, template, outline, user_images, layout_info, presentation,
              loop_i, image_index, tmp_file, error>>

handlerVars == <<uploads, handlers>>

vars == <<fn_in, fn_out, fn_done, pc, template, outline, user_images, layout_info,
          presentation, loop_i, image_index, tmp_file, error, uploads, handlers>>

\* The request variables while a pure-function specification runs
DeckIdle ==
    /\ pc = "idle"
    /\ template = <<>>
    /\ outline = <<>>
    /\ user_images = <<>>
    /\ layout_info = <<>>
    /\ presentation = <<>>
    /\ loop_i = 0
    /\ image_index = 0
    /\ tmp_file = "absent"
    /\ error = "none"

\* The upload folder and the request handlers while no request is modelled
HandlerIdle ==
    /\ uploads = <<>>
    /\ handlers = <<>>

\* The function variables while a generation request runs
FnIdle ==
    /\ fn_in = <<>>
    /\ fn_out = <<>>
    /\ fn_done = FALSE

----------------------------------------------------------------------------
(* Python helpers *)

\* Optional values: None is the empty tuple, a value v is <<v>>.
None == <<>>
Some(v) == <<v>>

\* int(a / b) for b > 0: Python's int() truncates towards zero.
TruncDiv(a, b) == IF a >= 0 THEN a \div b ELSE -((-a) \div b)

\* a // b for b > 0: floor division.
FloorDiv(a, b) == IF a >= 0 THEN a \div b ELSE -(((-a) + b - 1) \div b)

Min(a, b) == IF a < b THEN a ELSE b
Max(a, b) == IF a > b THEN a ELSE b

\* s[:m] of a Python list: a negative m counts from the end.
SliceTo(s, m) ==
    LET n == IF m >= 0 THEN Min(m, Len(s)) ELSE Max(0, Len(s) + m)
    IN  SubSeq(s, 1, n)

----------------------------------------------------------------------------
(* Content items.  kind is the Python type of the item as json.loads      *)
(* delivers it: "str", "list" (a nested list: has len(), is no text) or   *)
(* "num" (a number: has no len()).  len is len(item).                     *)

StrItem(n) == [kind |-> "str", len |-> n]
ListItem(n) == [kind |-> "list", len |-> n]
NumItem == [kind |-> "num", len |-> 0]

----------------------------------------------------------------------------
(* PresentationGenerator._ensure_content_fits_slide *)

TitleAllowance == 4114800
LineHeight == 381000
MaxItemsCap == 8
MaxCharsPerItem == 180
EllipsisLen == 3
FallbackItems == 6

\* max_items = min(max_lines // 2, 8)
MaxItemsFor(height) ==
    LET available_height == height - TitleAllowance
        max_lines == TruncDiv(available_height, LineHeight)
    IN  Min(FloorDiv(max_lines, 2), MaxItemsCap)

\* item[:max_chars_per_item] + "..." when len(item) > max_chars_per_item
TruncateItem(item) ==
    IF item.len > MaxCharsPerItem
    THEN [item EXCEPT !.len = MaxCharsPerItem + EllipsisLen]
    ELSE item

\* The try body raises TypeError: slide_height is None, len() of a number,
\* or list + str when a nested list is longer than the budget.
FitRaises(content, slide_height) ==
    \/ slide_height = None
    \/ LET fitted == SliceTo(content, MaxItemsFor(slide_height[1]))
       IN  \E j \in 1..Len(fitted) :
               \/ fitted[j].kind = "num"
               \/ fitted[j].kind = "list" /\ fitted[j].len > MaxCharsPerItem

EnsureContentFitsSlide(content, slide_height) ==
    IF FitRaises(content, slide_height)
    THEN SliceTo(content, FallbackItems)
    ELSE LET fitted == SliceTo(content, MaxItemsFor(slide_height[1]))
         IN  [j \in 1..Len(fitted) |-> TruncateItem(fitted[j])]

----------------------------------------------------------------------------
(* Inputs of the content fitter *)

MaxContentLen == 10

\* Slide heights python-pptx can report: None when the template has no
\* sldSz element, else 1 to 56 inches (ST_SlideSizeCoordinate).
SlideHeights ==
    { None, Some(914400), Some(2743200), Some(3657600), Some(4114800),
      Some(5143500), Some(6858000), Some(18288000) }

BaseItems == { StrItem(20), StrItem(180) }
SpecialItems == { StrItem(181), StrItem(300), ListItem(2), NumItem }

\* Lists of up to MaxContentLen items, all alike but for at most one.
ContentLists ==
    { [j \in 1..n |-> IF j = k THEN s ELSE b] :
        n \in 0..MaxContentLen, k \in 0..MaxContentLen,
        s \in SpecialItems, b \in BaseItems }

InitFit ==
    /\ fn_in \in [content : ContentLists, slide_height : SlideHeights]
    /\ fn_out = <<>>
    /\ fn_done = FALSE
    /\ DeckIdle
    /\ HandlerIdle

FitContent ==
    /\ ~fn_done
    /\ fn_out' = EnsureContentFitsSlide(fn_in.content, fn_in.slide_height)
    /\ fn_done' = TRUE
    /\ UNCHANGED fn_in
    /\ UNCHANGED deckVars
    /\ UNCHANGED handlerVars

NextFit == FitContent

SpecFit == InitFit /\ [][NextFit]_vars

----------------------------------------------------------------------------
(* C1: for every content list and every slide height the template can     *)
(* supply, the fitter returns at most 8 items and no returned item is     *)
(* longer than 183 characters (180 plus the ellipsis).                    *)
C1_FitBounded ==
    fn_done =>
        /\ Len(fn_out) <= MaxItemsCap
        /\ \A j \in 1..Len(fn_out) :
               fn_out[j].len <= MaxCharsPerItem + EllipsisLen

----------------------------------------------------------------------------
(* Colour strings: a hex string is the tuple of its characters. *)

HexChars == <<"0", "1", "2", "3", "4", "5", "6", "7", "8", "9",
              "a", "b", "c", "d", "e", "f">>
UpperHexChars == <<"A", "B", "C", "D", "E", "F">>

IsLowerHex(c) == \E k \in 1..Len(HexChars) : HexChars[k] = c
IsUpperHex(c) == \E k \in 1..Len(UpperHexChars) : UpperHexChars[k] = c
IsHexChar(c) == IsLowerHex(c) \/ IsUpperHex(c)

HexVal(c) ==
    IF IsLowerHex(c)
    THEN (CHOOSE k \in 1..Len(HexChars) : HexChars[k] = c) - 1
    ELSE (CHOOSE k \in 1..Len(UpperHexChars) : UpperHexChars[k] = c) + 9

\* int(s, 16) of a slice of at most two characters: None stands for
\* ValueError.  A leading sign is accepted before one digit.
ParseInt16(s) ==
    CASE Len(s) = 1 /\ IsHexChar(s[1]) -> Some(HexVal(s[1]))
      [] Len(s) = 2 /\ IsHexChar(s[1]) /\ IsHexChar(s[2]) ->
             Some(16 * HexVal(s[1]) + HexVal(s[2]))
      [] Len(s) = 2 /\ s[1] = "-" /\ IsHexChar(s[2]) -> Some(-HexVal(s[2]))
      [] Len(s) = 2 /\ s[1] = "+" /\ IsHexChar(s[2]) -> Some(HexVal(s[2]))
      [] OTHER -> None

\* s[i:i+2] with i counted from 0
Slice2(s, i) == SubSeq(s, i + 1, Min(i + 2, Len(s)))

\* tuple(int(color[i:i+2], 16) for i in (0, 2, 4)): None when one int() raises
ParseRgb(s) ==
    LET r == ParseInt16(Slice2(s, 0))
        g == ParseInt16(Slice2(s, 2))
        b == ParseInt16(Slice2(s, 4))
    IN  IF r = None \/ g = None \/ b = None THEN None
        ELSE Some(<<r[1], g[1], b[1]>>)

\* color[1:] when color.startswith('#')
StripOneHash(s) == IF Len(s) > 0 /\ s[1] = "#" THEN Tail(s) ELSE s

\* color.lstrip('#')
RECURSIVE LStripHash(_)
LStripHash(s) == IF Len(s) > 0 /\ s[1] = "#" THEN LStripHash(Tail(s)) ELSE s

\* (0.299 r + 0.587 g + 0.114 b) / 255, scaled by 255000 to stay in integers
Luminance(rgb) == 299 * rgb[1] + 587 * rgb[2] + 114 * rgb[3]
DarkBackgroundLimit == 127500
DarkEnoughLimit == 153000

\* RGBColor(r, g, b) raises ValueError unless each channel is in 0..255
ValidRgb(rgb) == \A k \in 1..3 : rgb[k] >= 0 /\ rgb[k] <= 255

White == <<255, 255, 255>>
TitleDark == <<20, 20, 20>>
BodyDark == <<40, 40, 40>>
FallbackDark == <<30, 30, 30>>

\* A colours dict: the 'primary' entry is None when the key is absent.
\* PresentationGenerator._is_dark_background
IsDarkBackground(bg_colors) ==
    IF bg_colors.primary = None THEN FALSE
    ELSE LET rgb == ParseRgb(StripOneHash(bg_colors.primary[1]))
         IN  IF rgb = None THEN FALSE
             ELSE Luminance(rgb[1]) < DarkBackgroundLimit

\* PresentationGenerator._is_color_dark_enough
IsColorDarkEnough(color) ==
    IF Len(color) = 0 THEN FALSE
    ELSE LET rgb == ParseRgb(StripOneHash(color))
         IN  IF rgb = None THEN FALSE
             ELSE Luminance(rgb[1]) < DarkEnoughLimit

\* The colour the branch on the background sets first
ContrastDefault(bg_colors, is_title) ==
    IF IsDarkBackground(bg_colors) THEN White
    ELSE IF is_title THEN TitleDark ELSE BodyDark

\* The theme override without its darkness test
ApplyThemeAlways(colors, bg_colors, is_title) ==
    LET base == ContrastDefault(bg_colors, is_title)
    IN  IF colors.primary # None
        THEN LET rgb == ParseRgb(LStripHash(colors.primary[1]))
             IN  IF rgb = None \/ ~ValidRgb(rgb[1]) THEN FallbackDark
                 ELSE rgb[1]
        ELSE base

\* PresentationGenerator._apply_high_contrast_color: the colour left on the run
ApplyHighContrastColor(colors, bg_colors, is_title) ==
    LET base == ContrastDefault(bg_colors, is_title)
    IN  IF colors.primary # None /\ IsColorDarkEnough(colors.primary[1])
        THEN LET rgb == ParseRgb(LStripHash(colors.primary[1]))
             IN  IF rgb = None THEN FallbackDark
                 ELSE IF Luminance(rgb[1]) < DarkEnoughLimit
                      THEN IF ValidRgb(rgb[1]) THEN rgb[1] ELSE FallbackDark
                      ELSE base
        ELSE base

\* f"#{r:02x}{g:02x}{b:02x}"
ToHex(rgb) ==
    <<"#", HexChars[(rgb[1] \div 16) + 1], HexChars[(rgb[1] % 16) + 1],
           HexChars[(rgb[2] \div 16) + 1], HexChars[(rgb[2] % 16) + 1],
           HexChars[(rgb[3] \div 16) + 1], HexChars[(rgb[3] % 16) + 1]>>

----------------------------------------------------------------------------
(* Inputs of the contrast policy *)

\* Background colours as get_background_colors formats them
BackgroundColors ==
    { <<"#", "0", "0", "0", "0", "0", "0">>,
      <<"#", "F", "F", "F", "F", "F", "F">>,
      <<"#", "f", "f", "f", "f", "f", "f">>,
      <<"#", "1", "f", "4", "e", "7", "9">>,
      <<"#", "7", "f", "7", "f", "7", "f">>,
      <<"#", "8", "0", "8", "0", "8", "0">> }

\* Theme primary colours: dark, light, at the threshold, malformed
PrimaryColors ==
    { <<"#", "1", "f", "4", "e", "7", "9">>,
      <<"#", "0", "0", "0", "0", "0", "0">>,
      <<"#", "f", "f", "f", "f", "f", "f">>,
      <<"#", "9", "9", "9", "9", "9", "9">>,
      <<"#", "9", "8", "9", "8", "9", "8">>,
      <<"#", "f", "f", "d", "7", "0", "0">>,
      <<"1", "f", "4", "e", "7", "9">>,
      <<"#", "1", "2", "3", "4", "5">>,
      <<"#", "z", "z", "z", "z", "z", "z">>,
      <<>>,
      <<"#", "#", "0", "0", "0", "0", "0", "0">>,
      <<"#", "-", "1", "-", "1", "-", "1">>,
      <<"#", "7", "0", "a", "d", "4", "7">> }

InitColor ==
    /\ fn_in \in [colors : [primary : {None} \cup {Some(c) : c \in PrimaryColors}],
                  bg_colors : [primary : {Some(c) : c \in BackgroundColors}],
                  is_title : BOOLEAN]
    /\ fn_out = <<>>
    /\ fn_done = FALSE
    /\ DeckIdle
    /\ HandlerIdle

ApplyColor ==
    /\ ~fn_done
    /\ fn_out' = ApplyHighContrastColor(fn_in.colors, fn_in.bg_colors, fn_in.is_title)
    /\ fn_done' = TRUE
    /\ UNCHANGED fn_in
    /\ UNCHANGED deckVars
    /\ UNCHANGED handlerVars

NextColor == ApplyColor

SpecColor == InitColor /\ [][NextColor]_vars

(* C2: on a dark background the colour left on a text run is pure white,   *)
(* for titles and body text and for every theme primary colour.            *)
C2_WhiteOnDark ==
    (fn_done /\ IsDarkBackground(fn_in.bg_colors)) => fn_out = White

(* C3: on a background that is not dark the colour left on a text run      *)
(* satisfies _is_color_dark_enough, whatever the theme primary colour.     *)
C3_DarkOnLight ==
    (fn_done /\ ~IsDarkBackground(fn_in.bg_colors)) =>
        IsColorDarkEnough(ToHex(fn_out))

\* A light background on which the dark theme colour replaced the default
C3_Witness ==
    /\ fn_done
    /\ ~IsDarkBackground(fn_in.bg_colors)
    /\ fn_in.colors.primary # None
    /\ IsColorDarkEnough(fn_in.colors.primary[1])
    /\ fn_out \notin {TitleDark, BodyDark, FallbackDark}

----------------------------------------------------------------------------
(* Layout names: a name is the tuple of its characters. *)

UpperAlpha == <<"A", "B", "C", "D", "E", "F", "G", "H", "I", "J", "K", "L", "M",
                "N", "O", "P", "Q", "R", "S", "T", "U", "V", "W", "X", "Y", "Z">>
LowerAlpha == <<"a", "b", "c", "d", "e", "f", "g", "h", "i", "j", "k", "l", "m",
                "n", "o", "p", "q", "r", "s", "t", "u", "v", "w", "x", "y", "z">>

\* str.lower(), character by character
LowerChar(c) ==
    IF \E k \in 1..Len(UpperAlpha) : UpperAlpha[k] = c
    THEN LowerAlpha[CHOOSE k \in 1..Len(UpperAlpha) : UpperAlpha[k] = c]
    ELSE c
Lower(s) == [j \in 1..Len(s) |-> LowerChar(s[j])]

\* keyword in name
Contains(s, kw) ==
    \E i \in 0..(Len(s) - Len(kw)) : SubSeq(s, i + 1, i + Len(kw)) = kw

\* any(keyword in name_lower for keyword in keywords)
AnyKeywordIn(name_lower, keywords) ==
    \E k \in 1..Len(keywords) : Contains(name_lower, keywords[k])

TitleKeywords ==
    <<<<"t", "i", "t", "l", "e">>,
       <<"c", "o", "v", "e", "r">>,
       <<"i", "n", "t", "r", "o">>>>
SectionKeywords ==
    <<<<"s", "e", "c", "t", "i", "o", "n">>,
       <<"d", "i", "v", "i", "d", "e", "r">>,
       <<"h", "e", "a", "d", "e", "r">>,
       <<"c", "h", "a", "p", "t", "e", "r">>>>
ContentKeywords ==
    <<<<"c", "o", "n", "t", "e", "n", "t">>,
       <<"b", "u", "l", "l", "e", "t">>,
       <<"t", "e", "x", "t">>,
       <<"l", "i", "s", "t">>>>
ComparisonKeywords ==
    <<<<"t", "w", "o">>,
       <<"c", "o", "m", "p", "a", "r", "i", "s", "o", "n">>,
       <<"c", "o", "l", "u", "m", "n">>,
       <<"v", "s">>>>
ConclusionKeywords ==
    <<<<"c", "o", "n", "c", "l", "u", "s", "i", "o", "n">>,
       <<"t", "h", "a", "n", "k">>,
       <<"e", "n", "d">>,
       <<"s", "u", "m", "m", "a", "r", "y">>>>

\* TemplateAnalyzer._analyze_layouts: one entry per layout, in template order
AnalyzeLayouts(names) == [j \in 1..Len(names) |-> [index |-> j - 1, name |-> names[j]]]

\* for layout in layouts: if any(...): return layout['index']
\* None when the loop ends without a return
RECURSIVE ScanLayouts(_, _)
ScanLayouts(layouts, keywords) ==
    IF Len(layouts) = 0 THEN None
    ELSE IF AnyKeywordIn(Lower(Head(layouts).name), keywords)
         THEN Some(Head(layouts).index)
         ELSE ScanLayouts(Tail(layouts), keywords)

ScanOr(layouts, keywords, fallback) ==
    LET found == ScanLayouts(layouts, keywords)
    IN  IF found # None THEN found[1] ELSE fallback

\* The selection with layout 1 as the fallback of content-like types
BestLayoutFallbackOne(layouts, slide_type) ==
    IF Len(layouts) = 0 THEN 0
    ELSE CASE slide_type = "title" -> ScanOr(layouts, TitleKeywords, 0)
           [] slide_type = "section" -> ScanOr(layouts, SectionKeywords, 0)
           [] slide_type = "content" -> ScanOr(layouts, ContentKeywords, 1)
           [] slide_type = "comparison" -> ScanOr(layouts, ComparisonKeywords, 1)
           [] slide_type = "conclusion" -> ScanOr(layouts, ConclusionKeywords, 0)
           [] OTHER -> 1

\* TemplateAnalyzer.get_best_layout_for_slide_type
GetBestLayoutForSlideType(layouts, slide_type) ==
    IF Len(layouts) = 0 THEN 0
    ELSE CASE slide_type = "title" -> ScanOr(layouts, TitleKeywords, 0)
           [] slide_type = "section" -> ScanOr(layouts, SectionKeywords, 0)
           [] slide_type = "content" ->
                  ScanOr(layouts, ContentKeywords, Min(1, Len(layouts) - 1))
           [] slide_type = "comparison" ->
                  ScanOr(layouts, ComparisonKeywords, Min(1, Len(layouts) - 1))
           [] slide_type = "conclusion" -> ScanOr(layouts, ConclusionKeywords, 0)
           [] OTHER -> Min(1, Len(layouts) - 1)

----------------------------------------------------------------------------
(* Inputs of the layout selection *)

MaxLayouts == 3

NameTitleSlide == <<"T", "i", "t", "l", "e", " ", "S", "l", "i", "d", "e">>
NameContent == <<"C", "o", "n", "t", "e", "n", "t">>
NameSectionHeader == <<"S", "e", "c", "t", "i", "o", "n", " ", "H", "e", "a", "d", "e", "r">>
NameTwoContent == <<"T", "w", "o", " ", "C", "o", "n", "t", "e", "n", "t">>
NameBlank == <<"B", "l", "a", "n", "k">>
NameAgenda == <<"A", "g", "e", "n", "d", "a">>
NameThankYou == <<"T", "h", "a", "n", "k", " ", "Y", "o", "u">>

LayoutNames ==
    { NameTitleSlide, NameContent, NameSectionHeader, NameTwoContent,
      NameBlank, NameAgenda, NameThankYou }

\* The SlideSpec types and one tag outside the recognized five
SlideTypes ==
    { "title", "section", "content", "comparison", "conclusion", "overview" }

NameLists == UNION { [1..n -> LayoutNames] : n \in 0..MaxLayouts }

InitLayout ==
    /\ fn_in \in [layouts : {AnalyzeLayouts(names) : names \in NameLists},
                  slide_type : SlideTypes]
    /\ fn_out = <<>>
    /\ fn_done = FALSE
    /\ DeckIdle
    /\ HandlerIdle

SelectLayout ==
    /\ ~fn_done
    /\ fn_out' = GetBestLayoutForSlideType(fn_in.layouts, fn_in.slide_type)
    /\ fn_done' = TRUE
    /\ UNCHANGED fn_in
    /\ UNCHANGED deckVars
    /\ UNCHANGED handlerVars

NextLayout == SelectLayout

SpecLayout == InitLayout /\ [][NextLayout]_vars

\* The keywords the claim gives for a slide type, as a set
ClaimedKeywords(slide_type) ==
    CASE slide_type = "title" -> {TitleKeywords[k] : k \in 1..Len(TitleKeywords)}
      [] slide_type = "section" -> {SectionKeywords[k] : k \in 1..Len(SectionKeywords)}
      [] slide_type = "content" -> {ContentKeywords[k] : k \in 1..Len(ContentKeywords)}
      [] slide_type = "comparison" ->
             {ComparisonKeywords[k] : k \in 1..Len(ComparisonKeywords)}
      [] slide_type = "conclusion" ->
             {ConclusionKeywords[k] : k \in 1..Len(ConclusionKeywords)}
      [] OTHER -> {}

\* Positions (from 0) of the layouts whose lower-cased name holds a keyword
MatchingPositions(layouts, slide_type) ==
    { p \in 0..(Len(layouts) - 1) :
        \E kw \in ClaimedKeywords(slide_type) : Contains(Lower(layouts[p + 1].name), kw) }

(* C4: for a non-empty catalog the selection returns the position of the   *)
(* first layout whose lower-cased name contains a keyword of the type; with *)
(* no match, 0 for title, section and conclusion and min(1, count - 1) for *)
(* the other types; section over [Title Slide, Content, Section Header]    *)
(* gives 2.                                                                *)
C4_FirstMatchOrFallback ==
    (fn_done /\ Len(fn_in.layouts) > 0) =>
        LET m == MatchingPositions(fn_in.layouts, fn_in.slide_type)
        IN  /\ m # {} => (fn_out \in m /\ \A p \in m : fn_out <= p)
            /\ (m = {} /\ fn_in.slide_type \in {"title", "section", "conclusion"})
                   => fn_out = 0
            /\ (m = {} /\ fn_in.slide_type \notin {"title", "section", "conclusion"})
                   => fn_out = Min(1, Len(fn_in.layouts) - 1)
            /\ (fn_in.slide_type = "section" /\
                fn_in.layouts = AnalyzeLayouts(<<NameTitleSlide, NameContent, NameSectionHeader>>))
                   => fn_out = 2

\* The example of the claim: section resolves to the third layout
C4_Witness ==
    /\ fn_done
    /\ fn_in.slide_type = "section"
    /\ fn_in.layouts = AnalyzeLayouts(<<NameTitleSlide, NameContent, NameSectionHeader>>)
    /\ fn_out = 2

----------------------------------------------------------------------------
(* Templates and documents.                                                *)
(* A layout is its name, whether it carries a title placeholder and a body *)
(* placeholder (placeholder_format.type == 2), and whether add_slide works *)
(* for it (addable) or raises.                                             *)

Layout(name, has_title, has_body, addable) ==
    [name |-> name, has_title |-> has_title, has_body |-> has_body, addable |-> addable]

NameTitleAndContent == <<"T", "i", "t", "l", "e", " ", "a", "n", "d", " ", "C", "o", "n", "t", "e", "n", "t">>
NameComparison == <<"C", "o", "m", "p", "a", "r", "i", "s", "o", "n">>
NameTitleOnly == <<"T", "i", "t", "l", "e", " ", "O", "n", "l", "y">>
NameContentWithCaption == <<"C", "o", "n", "t", "e", "n", "t", " ", "w", "i", "t", "h", " ", "C", "a", "p", "t", "i", "o", "n">>
NamePictureWithCaption == <<"P", "i", "c", "t", "u", "r", "e", " ", "w", "i", "t", "h", " ", "C", "a", "p", "t", "i", "o", "n">>
NameTitleAndVerticalText == <<"T", "i", "t", "l", "e", " ", "a", "n", "d", " ", "V", "e", "r", "t", "i", "c", "a", "l", " ", "T", "e", "x", "t">>
NameVerticalTitleAndText == <<"V", "e", "r", "t", "i", "c", "a", "l", " ", "T", "i", "t", "l", "e", " ", "a", "n", "d", " ", "T", "e", "x", "t">>
NameList == <<"L", "i", "s", "t">>
NamePicture == <<"P", "i", "c", "t", "u", "r", "e">>

\* Presentation(): the layouts of python-pptx's built-in blank document
DefaultLayouts ==
    << Layout(NameTitleSlide, TRUE, FALSE, TRUE),
       Layout(NameTitleAndContent, TRUE, FALSE, TRUE),
       Layout(NameSectionHeader, TRUE, TRUE, TRUE),
       Layout(NameTwoContent, TRUE, FALSE, TRUE),
       Layout(NameComparison, TRUE, TRUE, TRUE),
       Layout(NameTitleOnly, TRUE, FALSE, TRUE),
       Layout(NameBlank, FALSE, FALSE, TRUE),
       Layout(NameContentWithCaption, TRUE, TRUE, TRUE),
       Layout(NamePictureWithCaption, TRUE, TRUE, TRUE),
       Layout(NameTitleAndVerticalText, TRUE, TRUE, TRUE),
       Layout(NameVerticalTitleAndText, TRUE, TRUE, TRUE) >>

StandardHeight == 6858000
LowHeight == 3657600

\* parseable: TemplateAnalyzer can open the file; reopenable: the file is
\* still there and readable when generate opens it a second time
Template(parseable, reopenable, layouts, slides, height) ==
    [parseable |-> parseable, reopenable |-> reopenable, layouts |-> layouts,
     slides |-> slides, slide_height |-> Some(height)]

\* Three layouts, two slides of its own
TplStandard ==
    Template(TRUE, TRUE,
             << Layout(NameTitleSlide, TRUE, FALSE, TRUE),
                Layout(NameContent, TRUE, TRUE, TRUE),
                Layout(NameSectionHeader, TRUE, TRUE, TRUE) >>,
             2, StandardHeight)

\* A single layout without placeholders, no slides
TplBlankOnly ==
    Template(TRUE, TRUE, << Layout(NameBlank, FALSE, FALSE, TRUE) >>, 0, StandardHeight)

\* The keyword-matched image layout cannot be instantiated, layout 1 can;
\* the slide is 4 inches high
TplImageLayoutBroken ==
    Template(TRUE, TRUE,
             << Layout(NameList, TRUE, FALSE, TRUE),
                Layout(NameTitleSlide, TRUE, FALSE, TRUE),
                Layout(NameContent, TRUE, TRUE, FALSE) >>,
             1, LowHeight)

\* Layout 1, which both image-slide paths and the slide fallback use,
\* cannot be instantiated
TplLayoutOneBroken ==
    Template(TRUE, TRUE,
             << Layout(NameTitleSlide, TRUE, FALSE, TRUE),
                Layout(NamePicture, TRUE, FALSE, FALSE),
                Layout(NameList, TRUE, TRUE, TRUE) >>,
             1, StandardHeight)

\* Analysed, then gone before generate opens it again
TplGone ==
    Template(TRUE, FALSE,
             << Layout(NameTitleSlide, TRUE, FALSE, TRUE),
                Layout(NameContent, TRUE, TRUE, TRUE) >>,
             1, StandardHeight)

\* Not a presentation package
TplUnparseable == Template(FALSE, FALSE, <<>>, 0, StandardHeight)

Templates ==
    { TplStandard, TplBlankOnly, TplImageLayoutBroken, TplLayoutOneBroken,
      TplGone, TplUnparseable }

----------------------------------------------------------------------------
(* Outlines.  A SlideSpec is its slide_type, its content items and whether *)
(* it carries speaking notes.                                              *)

SlideSpec(slide_type, content, speaking_notes) ==
    [slide_type |-> slide_type, content |-> content, speaking_notes |-> speaking_notes]

SpecContentSlide == SlideSpec("content", <<StrItem(20), StrItem(300)>>, FALSE)
SpecTitleSlide == SlideSpec("title", <<>>, TRUE)
\* a nested list among the items
SpecNestedItem == SlideSpec("content", <<StrItem(20), ListItem(2)>>, FALSE)
\* a number among the items
SpecNumberItem == SlideSpec("content", <<NumItem, StrItem(20)>>, FALSE)
\* a nested list behind an item longer than every character budget
SpecLongNested == SlideSpec("content", <<StrItem(300), ListItem(2)>>, FALSE)
\* a type outside the recognized five
SpecOverview == SlideSpec("overview", <<StrItem(20)>>, TRUE)

WellFormedSpecs == { SpecContentSlide, SpecTitleSlide }
OtherSpecs == { SpecNestedItem, SpecNumberItem, SpecOverview, SpecLongNested }

MaxSlides == 6
MaxImages == 2

\* Outlines of up to MaxSlides slides: every sequence of well-formed
\* SlideSpecs, and every sequence of one repeated well-formed SlideSpec in
\* which one slide is replaced by one of OtherSpecs
Outlines ==
    UNION { [1..n -> WellFormedSpecs] \cup
            { [j \in 1..n |-> IF j = k THEN s ELSE g] :
                g \in WellFormedSpecs, k \in 1..n, s \in OtherSpecs } :
            n \in 0..MaxSlides }

\* An image file is known by its path, here its position in the upload
\* order, and is readable by add_picture or not; at most one is not
ImageLists ==
    { [j \in 1..n |-> [path |-> j, readable |-> (j # k)]] : n \in 0..MaxImages, k \in 0..MaxImages }

----------------------------------------------------------------------------
(* Slides of the document *)

\* A slide the template brought along
TemplateSlide ==
    [origin |-> "template", src |-> 0, role |-> "template", layout |-> 0,
     title |-> FALSE, body_region |-> FALSE, body_items |-> <<>>,
     notes |-> FALSE, picture |-> FALSE, image |-> 0]

\* A slide made for outline position src
OutlineSlide(src, role, layout, title, body_region, body_items, notes) ==
    [origin |-> "outline", src |-> src, role |-> role, layout |-> layout,
     title |-> title, body_region |-> body_region, body_items |-> body_items,
     notes |-> notes, picture |-> FALSE, image |-> 0]

\* An image slide inserted after outline position src
ImageSlide(src, role, layout, title, image) ==
    [origin |-> "image", src |-> src, role |-> role, layout |-> layout,
     title |-> title, body_region |-> image.readable, body_items |-> <<>>,
     notes |-> FALSE, picture |-> image.readable, image |-> image.path]

\* Outcome of a step that may raise: the slides it left and whether it raised
Outcome(slides, raised) == [slides |-> slides, raised |-> raised]

\* presentation.slide_layouts[index] and add_slide succeed
CanAddSlide(layouts, index) ==
    /\ index >= 0
    /\ index < Len(layouts)
    /\ layouts[index + 1].addable

----------------------------------------------------------------------------
(* PresentationGenerator._create_enhanced_content_textbox *)

TextboxMaxChars == 200

\* item[:200] + "..." when len(item) > 200
TextboxTruncate(item) ==
    IF item.len > TextboxMaxChars
    THEN [item EXCEPT !.len = TextboxMaxChars + EllipsisLen]
    ELSE item

\* len(item) raises for a number, list + str for a long nested list
TextboxItemRaises(item) ==
    \/ item.kind = "num"
    \/ item.kind = "list" /\ item.len > TextboxMaxChars

\* Number of items written before the first one that raises; bad holds the
\* positions of the items that raise
WrittenBefore(items, bad) ==
    IF bad = {} THEN Len(items)
    ELSE (CHOOSE j \in bad : \A k \in bad : j <= k) - 1

\* [items written, raised]
CreateEnhancedContentTextbox(content) ==
    LET n == WrittenBefore(content, { j \in 1..Len(content) : TextboxItemRaises(content[j]) })
    IN  [items |-> [j \in 1..n |-> TextboxTruncate(content[j])],
         raised |-> n < Len(content)]

(* PresentationGenerator._add_enhanced_slide_content *)

\* p.text = item raises TypeError unless item is a str
PlaceholderItemRaises(item) == item.kind # "str"

\* [region present, items written, raised] for a non-empty content
AddEnhancedSlideContent(layout, content, slide_height) ==
    LET fitted == EnsureContentFitsSlide(content, slide_height)
    IN  IF layout.has_body
        THEN LET n == WrittenBefore(fitted,
                                    { j \in 1..Len(fitted) : PlaceholderItemRaises(fitted[j]) })
             IN  [region |-> TRUE, items |-> SubSeq(fitted, 1, n),
                  raised |-> n < Len(fitted)]
        ELSE LET box == CreateEnhancedContentTextbox(fitted)
             IN  [region |-> TRUE, items |-> box.items, raised |-> box.raised]

(* PresentationGenerator._create_slide, lines 354-359 and _add_speaker_notes: *)
(* '; '.join(content) raises on an item that is no str, which is swallowed   *)
NotesAttached(spec) ==
    \/ spec.speaking_notes
    \/ \A j \in 1..Len(spec.content) : spec.content[j].kind = "str"

(* PresentationGenerator._create_enhanced_basic_slide: no try around it *)
CreateEnhancedBasicSlide(layouts, slides, spec, src) ==
    LET layout_index == IF Len(layouts) > 1 THEN Min(1, Len(layouts) - 1) ELSE 0
    IN  IF ~CanAddSlide(layouts, layout_index) THEN Outcome(slides, TRUE)
        ELSE LET layout == layouts[layout_index + 1]
                 box == IF Len(spec.content) > 0
                        THEN CreateEnhancedContentTextbox(spec.content)
                        ELSE [items |-> <<>>, raised |-> FALSE]
                 slide == OutlineSlide(src, "fallback", layout_index, layout.has_title,
                                       layout.has_body \/ Len(spec.content) > 0,
                                       box.items, FALSE)
             IN  Outcome(Append(slides, slide), box.raised)

(* PresentationGenerator._create_slide *)
CreateSlide(layouts, slides, catalog, slide_height, spec, src) ==
    LET layout_index == GetBestLayoutForSlideType(catalog, spec.slide_type)
    IN  IF ~CanAddSlide(layouts, layout_index)
        THEN CreateEnhancedBasicSlide(layouts, slides, spec, src)
        ELSE LET layout == layouts[layout_index + 1]
                 body == IF Len(spec.content) > 0
                         THEN AddEnhancedSlideContent(layout, spec.content, slide_height)
                         ELSE [region |-> layout.has_body, items |-> <<>>, raised |-> FALSE]
             IN  IF body.raised
                 THEN CreateEnhancedBasicSlide(
                          layouts,
                          Append(slides, OutlineSlide(src, "partial", layout_index, TRUE,
                                                      body.region, body.items, FALSE)),
                          spec, src)
                 ELSE Outcome(
                          Append(slides, OutlineSlide(src, "composed", layout_index, TRUE,
                                                      body.region, body.items,
                                                      NotesAttached(spec))),
                          FALSE)

----------------------------------------------------------------------------
(* Image slides *)

ImageLayoutKeywords ==
    <<<<"c", "o", "n", "t", "e", "n", "t">>,
       <<"t", "e", "x", "t">>,
       <<"b", "u", "l", "l", "e", "t">>,
       <<"t", "w", "o", " ", "c", "o", "n", "t", "e", "n", "t">>>>

\* for i, layout in enumerate(layouts): if any(...): return i
RECURSIVE ScanImageLayouts(_, _)
ScanImageLayouts(layouts, pos) ==
    IF pos >= Len(layouts) THEN None
    ELSE IF AnyKeywordIn(Lower(layouts[pos + 1].name), ImageLayoutKeywords)
         THEN Some(pos)
         ELSE ScanImageLayouts(layouts, pos + 1)

(* PresentationGenerator._find_content_layout_for_image *)
FindContentLayoutForImage(layouts) ==
    LET found == ScanImageLayouts(layouts, 0)
    IN  IF found # None THEN found[1]
        ELSE IF Len(layouts) > 1 THEN 1 ELSE 0

\* The fallback image slide without its try/except
TemplateBasedImageSlideUnguarded(layouts, slides, image, slide_number) ==
    LET layout_index == Min(1, Len(layouts) - 1)
    IN  IF ~CanAddSlide(layouts, layout_index) THEN Outcome(slides, TRUE)
        ELSE Outcome(Append(slides,
                            ImageSlide(slide_number, "image_fallback", layout_index,
                                       layouts[layout_index + 1].has_title, image)),
                     ~image.readable)

(* PresentationGenerator._create_template_based_image_slide: every failure *)
(* is caught; a slide added before add_picture failed stays                *)
CreateTemplateBasedImageSlide(layouts, slides, image, slide_number) ==
    LET layout_index == Min(1, Len(layouts) - 1)
    IN  IF ~CanAddSlide(layouts, layout_index) THEN Outcome(slides, FALSE)
        ELSE Outcome(Append(slides,
                            ImageSlide(slide_number, "image_fallback", layout_index,
                                       layouts[layout_index + 1].has_title, image)),
                     FALSE)

(* PresentationGenerator._create_image_slide; a failing add_picture is     *)
(* caught inside _add_image_and_text_custom_layout and leaves the slide    *)
CreateImageSlide(layouts, slides, image, slide_number) ==
    LET layout_index == FindContentLayoutForImage(layouts)
    IN  IF ~CanAddSlide(layouts, layout_index)
        THEN CreateTemplateBasedImageSlide(layouts, slides, image, slide_number)
        ELSE Outcome(Append(slides,
                            ImageSlide(slide_number, "image", layout_index,
                                       layouts[layout_index + 1].has_title, image)),
                     FALSE)

\* The first image at every insertion
ImageForInsertionFirst(images, cursor) == images[1]

\* self.user_images[image_index], line 89
ImageForInsertion(images, cursor) == images[cursor + 1]

\* The cadence test with the 0-based index
ImageDueZeroBased(slides_data, images, cursor, index) ==
    /\ Len(images) > 0
    /\ cursor < Len(images)
    /\ slides_data[index + 1].slide_type = "content"
    /\ index % 3 = 0

\* _generate_slides_with_images, lines 84-87: the test made after slide
\* index (from 0) has been created
ImageDue(slides_data, images, cursor, index) ==
    /\ Len(images) > 0
    /\ cursor < Len(images)
    /\ slides_data[index + 1].slide_type = "content"
    /\ (index + 1) % 3 = 0

----------------------------------------------------------------------------
(* A generation request *)

\* _generate_slides_with_images, lines 70-74: delete the slides from the last
RECURSIVE ClearSlides(_)
ClearSlides(slides) ==
    IF Len(slides) = 0 THEN slides
    ELSE ClearSlides(SubSeq(slides, 1, Len(slides) - 1))

Init ==
    /\ FnIdle
    /\ HandlerIdle
    /\ pc = "start"
    /\ template \in Templates
    /\ outline \in Outlines
    /\ user_images \in ImageLists
    /\ layout_info = <<>>
    /\ presentation = [layouts |-> <<>>, slides |-> <<>>]
    /\ loop_i = 0
    /\ image_index = 0
    /\ tmp_file = "absent"
    /\ error = "none"

\* TemplateAnalyzer._load_template on a file python-pptx can open
LoadTemplate ==
    /\ pc = "start"
    /\ template.parseable
    /\ layout_info' = AnalyzeLayouts([j \in 1..Len(template.layouts) |-> template.layouts[j].name])
    /\ pc' = "loaded"
    /\ UNCHANGED <<template, outline, user_images, presentation, loop_i, image_index,
                   tmp_file, error>>
    /\ UNCHANGED fnVars
    /\ UNCHANGED handlerVars

\* TemplateAnalyzer._load_template re-raises
LoadTemplateFails ==
    /\ pc = "start"
    /\ ~template.parseable
    /\ pc' = "raised"
    /\ error' = "template"
    /\ UNCHANGED <<template, outline, user_images, layout_info, presentation, loop_i,
                   image_index, tmp_file>>
    /\ UNCHANGED fnVars
    /\ UNCHANGED handlerVars

\* _create_presentation_from_template: the template's layouts and slides, or
\* the blank document when the template cannot be opened again
CreatePresentationFromTemplate(tpl) ==
    IF tpl.reopenable
    THEN [layouts |-> tpl.layouts, slides |-> [j \in 1..tpl.slides |-> TemplateSlide]]
    ELSE [layouts |-> DefaultLayouts, slides |-> <<>>]

\* generate up to the build loop: the document is created and its slides
\* are removed
StartGenerate ==
    /\ pc = "loaded"
    /\ LET opened == CreatePresentationFromTemplate(template)
       IN  presentation' = [opened EXCEPT !.slides = ClearSlides(opened.slides)]
    /\ pc' = "building"
    /\ UNCHANGED <<template, outline, user_images, layout_info, loop_i, image_index,
                   tmp_file, error>>
    /\ UNCHANGED fnVars
    /\ UNCHANGED handlerVars

\* The content list written back fitted, as if line 867 had not taken a slice
SlideDataFittedInPlace(spec, slide_height) ==
    [spec EXCEPT !.content = IF Len(@) > 0 THEN EnsureContentFitsSlide(@, slide_height) ELSE @]

\* slide_data after _create_slide has run on it: fitted_content is the slice
\* content[:max_items], a new list, so the write of line 873 lands in the
\* copy; lines 329, 375 and 596 rebind local names; no statement stores
\* into slide_data or into one of its lists
SlideDataAfterCreate(spec, slide_height) == spec

\* One iteration of the build loop
ComposeNext ==
    /\ pc = "building"
    /\ loop_i < Len(outline)
    /\ outline' = [outline EXCEPT ![loop_i + 1] = SlideDataAfterCreate(@, template.slide_height)]
    /\ LET made == CreateSlide(presentation.layouts, presentation.slides, layout_info,
                               template.slide_height, outline[loop_i + 1], loop_i + 1)
       IN  IF made.raised
           THEN /\ presentation' = [presentation EXCEPT !.slides = made.slides]
                /\ pc' = "raised"
                /\ error' = "slide"
                /\ UNCHANGED <<loop_i, image_index>>
           ELSE IF ImageDue(outline, user_images, image_index, loop_i)
           THEN LET shown == CreateImageSlide(presentation.layouts, made.slides,
                                              ImageForInsertion(user_images, image_index),
                                              loop_i + 1)
                IN  IF shown.raised
                    THEN /\ presentation' = [presentation EXCEPT !.slides = shown.slides]
                         /\ pc' = "raised"
                         /\ error' = "image"
                         /\ UNCHANGED <<loop_i, image_index>>
                    ELSE /\ presentation' = [presentation EXCEPT !.slides = shown.slides]
                         /\ image_index' = image_index + 1
                         /\ loop_i' = loop_i + 1
                         /\ UNCHANGED <<pc, error>>
           ELSE /\ presentation' = [presentation EXCEPT !.slides = made.slides]
                /\ loop_i' = loop_i + 1
                /\ UNCHANGED <<pc, image_index, error>>
    /\ UNCHANGED <<template, user_images, layout_info, tmp_file>>
    /\ UNCHANGED fnVars
    /\ UNCHANGED handlerVars

\* _save_presentation: the temporary file is created and closed, then
\* presentation.save writes the document to its path
SavePresentation ==
    /\ pc = "building"
    /\ loop_i = Len(outline)
    /\ tmp_file' = "complete"
    /\ pc' = "done"
    /\ UNCHANGED <<template, outline, user_images, layout_info, presentation, loop_i,
                   image_index, error>>
    /\ UNCHANGED fnVars
    /\ UNCHANGED handlerVars

\* presentation.save raises (the disk is full, the path became unwritable):
\* the file NamedTemporaryFile(delete=False) created stays, empty or cut
\* short ("incomplete")
SavePresentationFails ==
    /\ pc = "building"
    /\ loop_i = Len(outline)
    /\ tmp_file' = "incomplete"
    /\ pc' = "raised"
    /\ error' = "save"
    /\ UNCHANGED <<template, outline, user_images, layout_info, presentation, loop_i,
                   image_index>>
    /\ UNCHANGED fnVars
    /\ UNCHANGED handlerVars

Next ==
    \/ LoadTemplate
    \/ LoadTemplateFails
    \/ StartGenerate
    \/ ComposeNext
    \/ SavePresentation
    \/ SavePresentationFails

Spec == Init /\ [][Next]_vars

----------------------------------------------------------------------------
(* Properties of the deck build *)

Slides == presentation.slides

\* Outline positions after which the cadence asks for an image slide
Candidate(p) == outline[p].slide_type = "content" /\ p % 3 = 0
CandidatesUpTo(p) == { q \in 1..p : Candidate(q) }

\* An image is still unconsumed when the loop reaches candidate p: every
\* earlier candidate took one
DueAt(p) == Candidate(p) /\ Cardinality(CandidatesUpTo(p - 1)) < Len(user_images)

ImageSlidePositions == { k \in 1..Len(Slides) : Slides[k].origin = "image" }
ImageSlidesAfter(p) == { k \in ImageSlidePositions : Slides[k].src = p }

\* An image slide stands right behind a slide of the outline position it follows
RightAfterSource(k) ==
    k > 1 /\ Slides[k - 1].origin = "outline" /\ Slides[k - 1].src = Slides[k].src

\* add_slide works for the image layout or for the fallback layout
ImageLayoutAvailable ==
    \/ CanAddSlide(presentation.layouts, FindContentLayoutForImage(presentation.layouts))
    \/ CanAddSlide(presentation.layouts, Min(1, Len(presentation.layouts) - 1))

FiveContentSlides == [j \in 1..5 |-> SpecContentSlide]

FailedInsertions ==
    image_index - Cardinality({ k \in ImageSlidePositions : Slides[k].picture })

(* C6: a failure while inserting an image slide never aborts the build: no  *)
(* exception of the image-slide path reaches the build loop, and a finished *)
(* build has gone through every outline slide.                              *)
C6_ImageFailureAbsorbed ==
    /\ error # "image"
    /\ pc = "done" =>
           /\ loop_i = Len(outline)
           /\ \A p \in 1..Len(outline) :
                  \E k \in 1..Len(Slides) : Slides[k].origin = "outline" /\ Slides[k].src = p

\* A finished build in which an insertion failed in both image-slide paths
\* and outline slides were composed after it
C6_Witness ==
    /\ pc = "done"
    /\ tmp_file = "complete"
    /\ FailedInsertions > 0
    /\ \E p \in 1..Len(outline) :
           /\ DueAt(p)
           /\ ImageSlidesAfter(p) = {}
           /\ \E k \in 1..Len(Slides) : Slides[k].origin = "outline" /\ Slides[k].src > p

(* C7: a failure while composing one slide is absorbed inside _create_slide, *)
(* also when the fallback slide itself fails: no exception reaches the build *)
(* loop.                                                                     *)
C7_SlideFailureAbsorbed == error # "slide"

\* Source positions of the deck's slides that are no image slides, in deck order
NonImageSources ==
    LET kept == SelectSeq(Slides, LAMBDA s : s.origin # "image")
    IN  [k \in 1..Len(kept) |-> kept[k].src]

(* C8: after generate the deck holds exactly one slide per SlideSpec, in     *)
(* outline order, besides the image slides: no slide of the template is      *)
(* left and a SlideSpec rebuilt by the fallback still gives one slide.       *)
C8_OneSlidePerSpec ==
    pc = "done" =>
        /\ \A k \in 1..Len(Slides) : Slides[k].origin # "template"
        /\ NonImageSources = [p \in 1..Len(outline) |-> p]

(* C9: every slide of the output deck composed from a SlideSpec with        *)
(* non-empty content has a title shape, a body region holding content, and  *)
(* speaker notes, fallback slides included.                                 *)
C9_TitleBodyNotes ==
    pc = "done" =>
        \A k \in 1..Len(Slides) :
            (Slides[k].origin = "outline" /\ Len(outline[Slides[k].src].content) > 0) =>
                /\ Slides[k].title
                /\ Slides[k].body_region
                /\ Len(Slides[k].body_items) > 0
                /\ Slides[k].notes

(* C10: a request ends with the path of a completely written file or with   *)
(* an exception, and when it raises no empty or partly written file is left *)
(* at the temporary path.                                                   *)
C10_NoPartialFile ==
    /\ pc = "done" => tmp_file = "complete"
    /\ pc = "raised" => tmp_file = "absent"
    /\ pc \notin {"done", "raised"} => tmp_file = "absent"

----------------------------------------------------------------------------
(* TemplateAnalyzer: the profile read from a template *)

DefaultPrimary == <<"#", "1", "f", "4", "e", "7", "9">>
DefaultSecondary == <<"#", "4", "4", "7", "2", "c", "4">>
DefaultAccent == <<"#", "7", "0", "a", "d", "4", "7">>
DefaultFont == "Calibri"
DefaultWidth == 9144000

\* A shape of the first slide: its fill ("none", "solid" with an RGB colour,
\* or "raises" when reading or formatting the fill raises) and the font name
\* of its first run
Shape(fill, font) == [fill |-> fill, font |-> font]
ShapeColor == <<"#", "c", "0", "0", "0", "0", "0">>
ShapeFont == "Georgia"
Shapes == { Shape(f, n) : f \in {"none", "solid", "raises"}, n \in {None, Some(ShapeFont)} }

MaxShapes == 2

\* What _load_template meets in a template file
ProfileTemplates ==
    [ parseable : BOOLEAN,
      first_slide : {None} \cup { Some(sh) : sh \in UNION { [1..n -> Shapes] : n \in 0..MaxShapes } },
      theme_raises : BOOLEAN,
      slide_width : {None, Some(DefaultWidth)},
      slide_height : {None, Some(StandardHeight)},
      layouts_raise : BOOLEAN ]

\* _extract_colors, lines 109-116: the first solid fill gives the colour; an
\* exception ends the scan
RECURSIVE FirstSolidFill(_, _)
FirstSolidFill(shapes, pos) ==
    IF pos > Len(shapes) THEN None
    ELSE IF shapes[pos].fill = "raises" THEN None
    ELSE IF shapes[pos].fill = "solid" THEN Some(ShapeColor)
    ELSE FirstSolidFill(shapes, pos + 1)

ExtractColors(shapes) ==
    LET found == FirstSolidFill(shapes, 1)
    IN  [primary |-> IF found = None THEN DefaultPrimary ELSE found[1],
         secondary |-> DefaultSecondary,
         accent |-> DefaultAccent]

\* _extract_fonts: title stays Calibri ('title' is always in fonts); body
\* takes the font name of the last shape that names one
RECURSIVE LastFont(_, _)
LastFont(shapes, pos) ==
    IF pos = 0 THEN DefaultFont
    ELSE IF shapes[pos].font # None THEN shapes[pos].font[1]
    ELSE LastFont(shapes, pos - 1)

ExtractFonts(shapes) == [title |-> DefaultFont, body |-> LastFont(shapes, Len(shapes))]

SetDefaultTheme ==
    [k \in {"colors", "fonts", "slide_width", "slide_height"} |->
        CASE k = "colors" -> Some([primary |-> DefaultPrimary, secondary |-> DefaultSecondary,
                                   accent |-> DefaultAccent])
          [] k = "fonts" -> Some([title |-> DefaultFont, body |-> DefaultFont])
          [] k = "slide_width" -> Some(DefaultWidth)
          [] k = "slide_height" -> Some(StandardHeight)]

\* _analyze_theme: theme_info as a dict, key to value; a value is None where
\* python-pptx reports None
AnalyzeTheme(tpl) ==
    IF tpl.theme_raises THEN SetDefaultTheme
    ELSE [k \in (IF tpl.first_slide = None THEN {} ELSE {"colors", "fonts"})
                \cup {"slide_width", "slide_height"} |->
            CASE k = "colors" -> Some(ExtractColors(tpl.first_slide[1]))
              [] k = "fonts" -> Some(ExtractFonts(tpl.first_slide[1]))
              [] k = "slide_width" -> tpl.slide_width
              [] k = "slide_height" -> tpl.slide_height]

\* dict.get(key, default)
DictGet(dict, key, default) == IF key \in DOMAIN dict THEN dict[key] ELSE default

\* get_theme_colors, get_theme_fonts: {} when the key is absent
GetThemeColors(theme_info) == DictGet(theme_info, "colors", None)
GetThemeFonts(theme_info) == DictGet(theme_info, "fonts", None)

\* get_slide_dimensions: the default only when the key is absent
GetSlideDimensions(theme_info) ==
    [slide_width |-> DictGet(theme_info, "slide_width", Some(DefaultWidth)),
     slide_height |-> DictGet(theme_info, "slide_height", Some(StandardHeight))]

InitProfile ==
    /\ fn_in \in ProfileTemplates
    /\ fn_out = <<>>
    /\ fn_done = FALSE
    /\ DeckIdle
    /\ HandlerIdle

\* TemplateAnalyzer.__init__ on a file python-pptx opens
LoadProfile ==
    /\ ~fn_done
    /\ fn_in.parseable
    /\ LET theme_info == AnalyzeTheme(fn_in)
       IN  fn_out' = [loaded |-> TRUE,
                      colors |-> GetThemeColors(theme_info),
                      fonts |-> GetThemeFonts(theme_info),
                      dimensions |-> GetSlideDimensions(theme_info),
                      layouts_known |-> ~fn_in.layouts_raise]
    /\ fn_done' = TRUE
    /\ UNCHANGED fn_in
    /\ UNCHANGED deckVars
    /\ UNCHANGED handlerVars

\* Presentation(template_path) raises and _load_template raises again
LoadProfileFails ==
    /\ ~fn_done
    /\ ~fn_in.parseable
    /\ fn_out' = [loaded |-> FALSE]
    /\ fn_done' = TRUE
    /\ UNCHANGED fn_in
    /\ UNCHANGED deckVars
    /\ UNCHANGED handlerVars

NextProfile == LoadProfile \/ LoadProfileFails

SpecProfile == InitProfile /\ [][NextProfile]_vars

(* C12: after a successful template load every profile field has a value:  *)
(* where extraction of colours, fonts or dimensions failed or found nothing *)
(* (a template without slides included) the field holds its default         *)
(* (#1f4e79, #4472c4, #70ad47, Calibri, 10 by 7.5 inches); the load fails   *)
(* only when the file cannot be opened or parsed.                           *)
C12_ProfileComplete ==
    fn_done =>
        /\ fn_out.loaded <=> fn_in.parseable
        /\ fn_out.loaded =>
               /\ fn_out.colors # None
               /\ fn_out.fonts # None
               /\ fn_out.dimensions.slide_width # None
               /\ fn_out.dimensions.slide_height # None
               /\ (fn_in.theme_raises \/ fn_in.first_slide = None) =>
                      /\ fn_out.colors = Some([primary |-> DefaultPrimary,
                                               secondary |-> DefaultSecondary,
                                               accent |-> DefaultAccent])
                      /\ fn_out.fonts = Some([title |-> DefaultFont, body |-> DefaultFont])
               /\ (fn_in.theme_raises \/ fn_in.slide_width = None) =>
                      fn_out.dimensions.slide_width = Some(DefaultWidth)
               /\ (fn_in.theme_raises \/ fn_in.slide_height = None) =>
                      fn_out.dimensions.slide_height = Some(StandardHeight)

----------------------------------------------------------------------------
(* Slide titles.  A title is a sequence of characters; a character is a     *)
(* number, 0 standing for '.' and every other number for one other          *)
(* character.                                                               *)

MaxTitleLength == 60
Dot == 0
Ellipsis == <<Dot, Dot, Dot>>

\* title[:max_title_length] + "..." when len(title) > max_title_length, but
\* without the cut
TruncateTitleUncut(title) ==
    IF Len(title) > MaxTitleLength THEN title \o Ellipsis ELSE title

\* _create_slide, lines 327-330
TruncateTitle(title) ==
    IF Len(title) > MaxTitleLength
    THEN SubSeq(title, 1, MaxTitleLength) \o Ellipsis
    ELSE title

\* _create_manual_title, lines 372-375, on the title _create_slide hands it
CreateManualTitle(title_text) == TruncateTitle(title_text)

\* The ways a title reaches a slide: the layout's title placeholder, the text
\* box of _create_manual_title, and _create_enhanced_basic_slide on a layout
\* with or without a title placeholder
TitlePaths == {"placeholder", "manual", "fallback", "fallback_untitled"}

\* The text written as the slide's title, None when none is written
WrittenTitle(path, title) ==
    CASE path = "placeholder" -> Some(TruncateTitle(title))
      [] path = "manual" -> Some(CreateManualTitle(TruncateTitle(title)))
      [] path = "fallback" -> Some(title)
      [] path = "fallback_untitled" -> None

MaxTitleLen == 70

\* Titles of up to MaxTitleLen characters: all characters different, or all
\* of them dots
Titles ==
    { [j \in 1..n |-> j] : n \in 0..MaxTitleLen } \cup
    { [j \in 1..n |-> Dot] : n \in 0..MaxTitleLen }

InitTitle ==
    /\ fn_in \in [title : Titles, path : TitlePaths]
    /\ fn_out = <<>>
    /\ fn_done = FALSE
    /\ DeckIdle
    /\ HandlerIdle

WriteTitle ==
    /\ ~fn_done
    /\ fn_out' = WrittenTitle(fn_in.path, fn_in.title)
    /\ fn_done' = TRUE
    /\ UNCHANGED fn_in
    /\ UNCHANGED deckVars
    /\ UNCHANGED handlerVars

NextTitle == WriteTitle

SpecTitle == InitTitle /\ [][NextTitle]_vars

(* C13: the title text written on a slide is at most 60 characters of the   *)
(* SlideSpec title followed by the ellipsis, 63 characters at most, on      *)
(* every path (title placeholder, synthesized title box, fallback slide); a *)
(* title of 60 characters or fewer is written unchanged.                    *)
C13_TitleBounded ==
    (fn_done /\ fn_out # None) =>
        /\ Len(fn_out[1]) <= MaxTitleLength + Len(Ellipsis)
        /\ Len(fn_in.title) <= MaxTitleLength => fn_out[1] = fn_in.title
        /\ Len(fn_in.title) > MaxTitleLength =>
               fn_out[1] = SubSeq(fn_in.title, 1, MaxTitleLength) \o Ellipsis

(* C14: title truncation is idempotent: truncating a title that was already *)
(* truncated, as _create_manual_title does after _create_slide, gives the   *)
(* same text as truncating once.                                            *)
C14_TruncationIdempotent ==
    (fn_done /\ fn_in.path = "manual") =>
        /\ fn_out = Some(TruncateTitle(fn_in.title))
        /\ TruncateTitle(fn_out[1]) = fn_out[1]

\* A title longer than 60 characters written by the synthesized title box
C14_Witness ==
    /\ fn_done
    /\ fn_in.path = "manual"
    /\ Len(fn_in.title) > MaxTitleLength + Len(Ellipsis)
    /\ Len(fn_out[1]) = MaxTitleLength + Len(Ellipsis)

----------------------------------------------------------------------------
(* LLMService.analyze_text_structure.  A reply of the model is a sequence   *)
(* of tokens: "{" and "}", "x" for a sentence of prose, and the members of  *)
(* a JSON object: "s" for "slides": [two slides], "e" for "slides": [], "t" *)
(* for any other member.                                                    *)

ReplyTokens == {"{", "}", "x", "s", "e", "t"}
MemberTokens == {"s", "e", "t"}

MaxReplyLen == 4
MaxChunks == 16

\* str.find and str.rfind: 0-based index, -1 when absent
Find(str, c) ==
    LET at == { j \in 1..Len(str) : str[j] = c }
    IN  IF at = {} THEN -1 ELSE (CHOOSE j \in at : \A k \in at : j <= k) - 1

RFind(str, c) ==
    LET at == { j \in 1..Len(str) : str[j] = c }
    IN  IF at = {} THEN -1 ELSE (CHOOSE j \in at : \A k \in at : j >= k) - 1

\* response[start:end] for 0 <= start and 0 <= end
Slice(str, start, end) == SubSeq(str, start + 1, end)

\* json.loads accepts the text: an object of members
JsonLoadsOk(json_str) ==
    /\ Len(json_str) >= 2
    /\ json_str[1] = "{"
    /\ json_str[Len(json_str)] = "}"
    /\ \A j \in 2..(Len(json_str) - 1) : json_str[j] \in MemberTokens

\* The value of the 'slides' key of the parsed object (the last member of
\* that name counts), None when the object has no such key
JsonSlides(json_str) ==
    LET at == { j \in 1..Len(json_str) : json_str[j] \in {"s", "e"} }
    IN  IF at = {} THEN None
        ELSE LET last == CHOOSE j \in at : \A k \in at : j >= k
             IN  IF json_str[last] = "s" THEN Some(<<"content", "content">>) ELSE Some(<<>>)

MaxChunksUsed == 15
SectionEvery == 3
SectionHeaders == 5

\* _fallback_structure, lines 341-399: the slides made from the chunks
RECURSIVE FallbackChunkSlides(_, _)
FallbackChunkSlides(processed_slides, chunks) ==
    IF processed_slides >= Min(chunks, MaxChunksUsed) THEN <<>>
    ELSE (IF /\ processed_slides > 0
             /\ processed_slides % SectionEvery = 0
             /\ processed_slides < SectionHeaders
          THEN <<"section">> ELSE <<>>)
         \o <<"content">> \o FallbackChunkSlides(processed_slides + 1, chunks)

\* _fallback_structure on a text of that many sentences
FallbackStructure(chunks) ==
    [raised |-> FALSE,
     slides |-> Some(<<"title">> \o FallbackChunkSlides(0, chunks) \o <<"conclusion">>)]

\* Sentences of prose in a reply
ProseChunks(response) == Cardinality({ j \in 1..Len(response) : response[j] = "x" })

\* _parse_structure_response
ParseStructureResponse(response) ==
    LET start_idx == Find(response, "{")
        end_idx == RFind(response, "}") + 1
    IN  IF start_idx # -1 /\ end_idx # 0 /\ JsonLoadsOk(Slice(response, start_idx, end_idx))
        THEN [raised |-> FALSE, slides |-> JsonSlides(Slice(response, start_idx, end_idx))]
        ELSE FallbackStructure(ProseChunks(response))

\* analyze_text_structure: reply is None when _make_llm_call raises
AnalyzeTextStructure(chunks, reply) ==
    IF reply = None THEN FallbackStructure(chunks)
    ELSE ParseStructureResponse(reply[1])

Replies == {None} \cup { Some(r) : r \in UNION { [1..n -> ReplyTokens] : n \in 0..MaxReplyLen } }

InitAnalyze ==
    /\ fn_in \in [chunks : 0..MaxChunks, reply : Replies]
    /\ fn_out = <<>>
    /\ fn_done = FALSE
    /\ DeckIdle
    /\ HandlerIdle

AnalyzeText ==
    /\ ~fn_done
    /\ fn_out' = AnalyzeTextStructure(fn_in.chunks, fn_in.reply)
    /\ fn_done' = TRUE
    /\ UNCHANGED fn_in
    /\ UNCHANGED deckVars
    /\ UNCHANGED handlerVars

NextAnalyze == AnalyzeText

SpecAnalyze == InitAnalyze /\ [][NextAnalyze]_vars

(* C15: analyze_text_structure never raises and always returns an outline   *)
(* whose slides sequence is non-empty, whether the model call fails, the    *)
(* reply holds no JSON, the JSON is invalid, or the reply parses to a value *)
(* without slides or with an empty slides list.                             *)
C15_OutlineNonEmpty ==
    fn_done =>
        /\ ~fn_out.raised
        /\ fn_out.slides # None
        /\ Len(fn_out.slides[1]) > 0

----------------------------------------------------------------------------
(* C16: generate validates that the outline's slides sequence is non-empty  *)
(* before composing: for an outline with an empty slides list, or without a *)
(* slides entry (structure.get('slides', []) reads it as empty), it does    *)
(* not write and return a deck file with zero slides.                       *)
C16_EmptyOutlineRejected ==
    Len(outline) = 0 => ~(pc = "done" /\ tmp_file = "complete" /\ Len(Slides) = 0)

----------------------------------------------------------------------------
(* Speaker notes: _create_slide lines 354-359, _add_detailed_speaker_notes, *)
(* _add_speaker_notes and LLMService.generate_speaker_notes                 *)

FallbackPhrase == <<"K", "e", "y", " ", "p", "o", "i", "n", "t", "s">>

\* str.strip() for blanks
RECURSIVE Strip(_)
Strip(str) ==
    IF Len(str) = 0 THEN str
    ELSE IF str[1] = " " THEN Strip(SubSeq(str, 2, Len(str)))
    ELSE IF str[Len(str)] = " " THEN Strip(SubSeq(str, 1, Len(str) - 1))
    ELSE str

\* generate_speaker_notes: reply is None when _make_llm_call raises
GenerateSpeakerNotes(reply) ==
    IF reply = None THEN FallbackPhrase ELSE Strip(reply[1])

\* _add_speaker_notes: '; '.join(content) raises on an item that is no str,
\* and the except branch leaves the slide without notes
AddSpeakerNotes(title, content, reply) ==
    IF \E j \in 1..Len(content) : content[j].kind # "str"
    THEN [notes |-> None, calls |-> 0, argument |-> None]
    ELSE [notes |-> Some(GenerateSpeakerNotes(reply)),
          calls |-> 1,
          argument |-> Some([title |-> title, content |-> content])]

\* _add_detailed_speaker_notes
AddDetailedSpeakerNotes(speaking_notes) ==
    [notes |-> Some(speaking_notes), calls |-> 0, argument |-> None]

\* The notes of the slide _create_slide leaves for a SlideSpec: a slide
\* whose composition raised before line 354 is rebuilt by
\* _create_enhanced_basic_slide, which writes no notes
SlideNotes(speaking_notes, title, content, has_body, slide_height, reply) ==
    LET body == IF Len(content) > 0
                THEN AddEnhancedSlideContent(Layout(NameContent, TRUE, has_body, TRUE),
                                             content, slide_height)
                ELSE [region |-> has_body, items |-> <<>>, raised |-> FALSE]
    IN  IF body.raised THEN [notes |-> None, calls |-> 0, argument |-> None]
        ELSE IF Len(speaking_notes) > 0 THEN AddDetailedSpeakerNotes(speaking_notes)
        ELSE AddSpeakerNotes(TruncateTitle(title), content, reply)

MaxNotesItems == 4

NotesItems == { StrItem(20), ListItem(2), NumItem }
NotesContents == UNION { [1..n -> NotesItems] : n \in 0..MaxNotesItems }
NotesTitles == { [j \in 1..n |-> j] : n \in {5, MaxTitleLength + 1} }
NotesReplies == { None, Some(<<"r">>), Some(<<" ", "r", " ">>) }

InitNotes ==
    /\ fn_in \in [speaking_notes : { <<>>, <<"n", "o", "t", "e">> },
                  title : NotesTitles,
                  content : NotesContents,
                  has_body : BOOLEAN,
                  reply : NotesReplies]
    /\ fn_out = <<>>
    /\ fn_done = FALSE
    /\ DeckIdle
    /\ HandlerIdle

WriteNotes ==
    /\ ~fn_done
    /\ fn_out' = SlideNotes(fn_in.speaking_notes, fn_in.title, fn_in.content,
                            fn_in.has_body, Some(StandardHeight), fn_in.reply)
    /\ fn_done' = TRUE
    /\ UNCHANGED fn_in
    /\ UNCHANGED deckVars
    /\ UNCHANGED handlerVars

NextNotes == WriteNotes

SpecNotes == InitNotes /\ [][NextNotes]_vars

(* C17: for each composed slide, when the SlideSpec carries non-empty       *)
(* speaking notes the slide's notes are exactly that text and the notes     *)
(* generator is not called; otherwise the generator is called exactly once, *)
(* with the slide title and the content items, and the slide's notes are    *)
(* what it returns, the fixed fallback phrase when the model call fails.    *)
C17_NotesVerbatimOrGenerated ==
    fn_done =>
        IF Len(fn_in.speaking_notes) > 0
        THEN /\ fn_out.notes = Some(fn_in.speaking_notes)
             /\ fn_out.calls = 0
        ELSE /\ fn_out.calls = 1
             /\ fn_out.argument = Some([title |-> TruncateTitle(fn_in.title),
                                        content |-> fn_in.content])
             /\ fn_out.notes = Some(IF fn_in.reply = None THEN FallbackPhrase
                                    ELSE Strip(fn_in.reply[1]))

----------------------------------------------------------------------------
(* The text of the body paragraphs: _add_enhanced_slide_content and         *)
(* _create_enhanced_content_textbox.  A text item is its length, its last   *)
(* character and whether a ':' stands among its first characters.           *)

TextItem(n, last, colon) == [kind |-> "str", len |-> n, last |-> last, colon |-> colon]

SubPointMinLen == 80
SubPointMaxIndex == 4

\* The last character of an item after _ensure_content_fits_slide: the
\* ellipsis when line 873 cut the item
LastAfterFit(item) == IF item.len > MaxCharsPerItem THEN "." ELSE item.last

\* The last characters of the paragraphs written for the item at index i
\* (from 0): p.text = item, or parts[0] + ':' and parts[1].strip() on the
\* placeholder path (lines 493-507); the bullet and the item in the text box
ParagraphEnds(has_body, item, fitted_len, i) ==
    IF has_body /\ item.colon /\ fitted_len > SubPointMinLen /\ i < SubPointMaxIndex
    THEN <<":", LastAfterFit(item)>>
    ELSE <<LastAfterFit(item)>>

\* The paragraphs written for a content list, item by item
WrittenParagraphEnds(has_body, content, slide_height) ==
    LET fitted == EnsureContentFitsSlide(content, slide_height)
    IN  [j \in 1..Len(fitted) |-> ParagraphEnds(has_body, content[j], fitted[j].len, j - 1)]

MaxTextItems == 2

TerminalPunctuation == {".", "!", "?"}

TextItems ==
    { TextItem(n, last, colon) :
        n \in {20, 100, 300}, last \in TerminalPunctuation \cup {"a"}, colon \in BOOLEAN }

InitBody ==
    /\ fn_in \in [content : UNION { [1..n -> TextItems] : n \in 0..MaxTextItems },
                  has_body : BOOLEAN]
    /\ fn_out = <<>>
    /\ fn_done = FALSE
    /\ DeckIdle
    /\ HandlerIdle

WriteBody ==
    /\ ~fn_done
    /\ fn_out' = WrittenParagraphEnds(fn_in.has_body, fn_in.content, Some(StandardHeight))
    /\ fn_done' = TRUE
    /\ UNCHANGED fn_in
    /\ UNCHANGED deckVars
    /\ UNCHANGED handlerVars

NextBody == WriteBody

SpecBody == InitBody /\ [][NextBody]_vars

(* C18: before content items are written to a slide they are normalized so  *)
(* that every body item written ends with '.', '!' or '?': a '.' is         *)
(* appended to an item without terminal punctuation and an item that has it *)
(* is left unchanged.                                                       *)
C18_TerminalPunctuation ==
    fn_done =>
        \A j \in 1..Len(fn_out) :
            /\ \A k \in 1..Len(fn_out[j]) : fn_out[j][k] \in TerminalPunctuation
            /\ fn_in.content[j].last \in TerminalPunctuation =>
                   fn_out[j][Len(fn_out[j])] = fn_in.content[j].last

----------------------------------------------------------------------------
(* The request handler generate_presentation of app.py.  Flask serves       *)
(* requests in threads of their own; the steps of two calls interleave. A  *)
(* file name is a sequence of characters (the extension left out).         *)

Requests == {1, 2}

\* werkzeug's secure_filename: blanks become underscores
SecureFilename(name) == [j \in 1..Len(name) |-> IF name[j] = " " THEN "_" ELSE name[j]]

\* template_path, line 65, and image_path, line 77, inside UPLOAD_FOLDER
TemplatePath(name) == SecureFilename(name)
ImagePath(name) == <<"i", "m", "g", "_">> \o SecureFilename(name)

TemplateNames == { <<"d">>, <<"m", " ", "d">>, <<"m", "_", "d">> }
ImageNames == { <<"p">>, <<"q">> }
UploadPaths ==
    { TemplatePath(n) : n \in TemplateNames } \cup { ImagePath(n) : n \in ImageNames }

\* What a client sends and what the call meets: the names of the uploaded
\* files, the image whose save() raises (0: none), and whether LLMService
\* accepts the provider
Uploads ==
    { [template_file |-> t, image_files |-> im, save_fails_at |-> f, provider_ok |-> ok] :
        t \in TemplateNames,
        im \in { <<>>, << <<"p">> >>, << <<"p">>, <<"q">> >> },
        f \in 0..2,
        ok \in BOOLEAN }

\* A call before its first step.  profile_of, deck_of and pictures_of say
\* whose upload TemplateAnalyzer, _create_presentation_from_template and
\* add_picture read (0: nothing was read)
NewHandler(form) ==
    [form |-> form, pc |-> "start", template_path |-> None, image_paths |-> <<>>,
     profile_of |-> 0, deck_of |-> 0, pictures_of |-> <<>>, status |-> "none"]

InitHandlers ==
    /\ handlers \in { [r \in Requests |-> NewHandler(f[r])] :
                        f \in { g \in [Requests -> Uploads] :
                                  \A r \in Requests :
                                      g[r].save_fails_at <= Len(g[r].image_files) } }
    /\ uploads = [path \in UploadPaths |-> 0]
    /\ FnIdle
    /\ DeckIdle

\* lines 64-66
SaveTemplate(r) ==
    /\ handlers[r].pc = "start"
    /\ LET template_path == TemplatePath(handlers[r].form.template_file)
       IN  /\ uploads' = [uploads EXCEPT ![template_path] = r]
           /\ handlers' = [handlers EXCEPT ![r].pc = "save_images",
                                           ![r].template_path = Some(template_path)]
    /\ UNCHANGED fnVars
    /\ UNCHANGED deckVars

\* lines 70-79, one image; an exception of save() goes to the except of
\* line 106, past the finally of line 98
SaveImage(r) ==
    /\ handlers[r].pc = "save_images"
    /\ Len(handlers[r].image_paths) < Len(handlers[r].form.image_files)
    /\ LET k == Len(handlers[r].image_paths) + 1
           image_path == ImagePath(handlers[r].form.image_files[k])
       IN  IF handlers[r].form.save_fails_at = k
           THEN /\ handlers' = [handlers EXCEPT ![r].pc = "returned", ![r].status = "error"]
                /\ UNCHANGED uploads
           ELSE /\ uploads' = [uploads EXCEPT ![image_path] = r]
                /\ handlers' = [handlers EXCEPT
                                   ![r].image_paths = Append(@, image_path)]
    /\ UNCHANGED fnVars
    /\ UNCHANGED deckVars

\* lines 83-85: LLMService raises for a provider it does not know,
\* TemplateAnalyzer raises when the file at template_path is gone
InitServices(r) ==
    /\ handlers[r].pc = "save_images"
    /\ Len(handlers[r].image_paths) = Len(handlers[r].form.image_files)
    /\ LET found == uploads[handlers[r].template_path[1]]
       IN  IF ~handlers[r].form.provider_ok \/ found = 0
           THEN handlers' = [handlers EXCEPT ![r].pc = "cleanup", ![r].status = "error"]
           ELSE handlers' = [handlers EXCEPT ![r].pc = "generate", ![r].profile_of = found]
    /\ UNCHANGED uploads
    /\ UNCHANGED fnVars
    /\ UNCHANGED deckVars

\* line 88: generate opens the file at template_path again (the blank
\* document when it is gone) and add_picture opens the images
Generate(r) ==
    /\ handlers[r].pc = "generate"
    /\ handlers' = [handlers EXCEPT
                       ![r].pc = "cleanup",
                       ![r].status = "ok",
                       ![r].deck_of = uploads[handlers[r].template_path[1]],
                       ![r].pictures_of = [j \in 1..Len(handlers[r].image_paths) |->
                                              uploads[handlers[r].image_paths[j]]]]
    /\ UNCHANGED uploads
    /\ UNCHANGED fnVars
    /\ UNCHANGED deckVars

\* lines 100-101
RemoveTemplate(r) ==
    /\ handlers[r].pc = "cleanup"
    /\ uploads' = [uploads EXCEPT ![handlers[r].template_path[1]] = 0]
    /\ handlers' = [handlers EXCEPT ![r].pc = "cleanup_images"]
    /\ UNCHANGED fnVars
    /\ UNCHANGED deckVars

\* lines 102-104
RemoveImages(r) ==
    /\ handlers[r].pc = "cleanup_images"
    /\ uploads' = [path \in UploadPaths |->
                      IF \E j \in 1..Len(handlers[r].image_paths) :
                             handlers[r].image_paths[j] = path
                      THEN 0 ELSE uploads[path]]
    /\ handlers' = [handlers EXCEPT ![r].pc = "returned"]
    /\ UNCHANGED fnVars
    /\ UNCHANGED deckVars

NextHandlers ==
    \E r \in Requests :
        \/ SaveTemplate(r)
        \/ SaveImage(r)
        \/ InitServices(r)
        \/ Generate(r)
        \/ RemoveTemplate(r)
        \/ RemoveImages(r)

SpecHandlers == InitHandlers /\ [][NextHandlers]_vars

(* C19: two generation requests handled concurrently do not interfere:     *)
(* each request's template analysis and deck build read only the template  *)
(* and image files that request uploaded, and neither request overwrites   *)
(* or deletes a file the other is still using, also when both upload files *)
(* of the same name.                                                       *)
C19_RequestsIsolated ==
    \A r \in Requests :
        /\ handlers[r].profile_of \in {0, r}
        /\ handlers[r].status = "ok" =>
               /\ handlers[r].deck_of = r
               /\ \A j \in 1..Len(handlers[r].pictures_of) : handlers[r].pictures_of[j] = r
        /\ handlers[r].pc \in {"save_images", "generate"} =>
               /\ uploads[handlers[r].template_path[1]] = r
               /\ \A j \in 1..Len(handlers[r].image_paths) :
                      uploads[handlers[r].image_paths[j]] = r

(* C20: every uploaded template and image file the handler has saved to   *)
(* the upload folder is deleted by the time the handler returns, on        *)
(* success and on every error path, a failure while saving a later image   *)
(* and a failure while constructing the services included.                 *)
C20_UploadsDeleted ==
    \A r \in Requests :
        handlers[r].pc = "returned" =>
            /\ uploads[handlers[r].template_path[1]] # r
            /\ \A j \in 1..Len(handlers[r].image_paths) :
                   uploads[handlers[r].image_paths[j]] # r

----------------------------------------------------------------------------
(* The fitted items of a slide of the deck *)

\* What _ensure_content_fits_slide returns for the content of outline
\* position p on this template
FittedItemsOf(p) == EnsureContentFitsSlide(outline[p].content, template.slide_height)

\* items is what a writing loop left of fitted: all of it, or the items
\* before the one on which the loop raised
WrittenFrom(items, fitted) ==
    /\ Len(items) <= Len(fitted)
    /\ \A j \in 1..Len(items) : items[j] = fitted[j]

(* C21: body text reaches a slide only through the content fitter: on every *)
(* composition path (native body placeholder, synthesized text box,         *)
(* failure-fallback slide) the items written are the fitted items, so a     *)
(* slide made for an outline position holds at most 8 body items, each of   *)
(* at most 183 characters before any bullet glyph.                          *)
C21_BodyIsFitted ==
    \A k \in 1..Len(Slides) :
        Slides[k].origin = "outline" =>
            /\ WrittenFrom(Slides[k].body_items, FittedItemsOf(Slides[k].src))
            /\ Len(Slides[k].body_items) <= MaxItemsCap
            /\ \A j \in 1..Len(Slides[k].body_items) :
                   Slides[k].body_items[j].len <= MaxCharsPerItem + EllipsisLen

----------------------------------------------------------------------------
\* The slides _create_enhanced_basic_slide added
FallbackSlidePositions == { k \in 1..Len(Slides) : Slides[k].role = "fallback" }

(* C22: when composing a slide fails, the fallback slide is built from the  *)
(* first available layout (index 0) and carries the title and a plain       *)
(* synthesized content box, whatever the number of layouts in the document. *)
C22_FallbackFromFirstLayout ==
    \A k \in FallbackSlidePositions :
        /\ Slides[k].layout = 0
        /\ Slides[k].title
        /\ Len(outline[Slides[k].src].content) > 0 => Slides[k].body_region

----------------------------------------------------------------------------
\* The first tier, _create_image_slide, raised for the document's layouts:
\* add_slide failed for the layout _find_content_layout_for_image chose
FirstTierFailed ==
    ~CanAddSlide(presentation.layouts, FindContentLayoutForImage(presentation.layouts))

\* The second tier, _create_template_based_image_slide, raised for the
\* image inserted after outline position p: add_slide failed for its layout
\* or add_picture failed for the image
SecondTierFailed(p) ==
    \/ ~CanAddSlide(presentation.layouts, Min(1, Len(presentation.layouts) - 1))
    \/ ~user_images[Cardinality({ q \in 1..(p - 1) : DueAt(q) }) + 1].readable

\* The bare title-plus-image slide of _create_basic_image_slide
BasicImageSlidesAfter(p) ==
    { k \in ImageSlidesAfter(p) : Slides[k].role = "image_basic" /\ Slides[k].layout = 0 }

(* C23: when creating an image slide fails, the builder next tries the      *)
(* simpler centered-image slide and, if that fails too, the bare            *)
(* title-plus-image slide built from layout 0, in that order; each tier is  *)
(* attempted only after the previous one failed.                            *)
C23_ImageFallbackTiers ==
    \A p \in 1..loop_i :
        DueAt(p) =>
            /\ (\E k \in ImageSlidesAfter(p) : Slides[k].role = "image_fallback")
                   => FirstTierFailed
            /\ BasicImageSlidesAfter(p) # {} => (FirstTierFailed /\ SecondTierFailed(p))
            /\ (FirstTierFailed /\ SecondTierFailed(p)
                    /\ CanAddSlide(presentation.layouts, 0))
                   => BasicImageSlidesAfter(p) # {}

----------------------------------------------------------------------------
(* The text regions the composer places, in EMU (914400 to the inch) *)

SafeMargin == 731520
BodyTop == 2286000
BodyHeightAllowance == 3840480
EmphasisLeft == 914400
EmphasisTop == 5486400
EmphasisWidth == 7315200
EmphasisHeight == 914400

Region(left, top, width, height) ==
    [left |-> left, top |-> top, width |-> width, height |-> height]

\* _add_enhanced_slide_content, lines 470-474, and the same arithmetic in
\* _create_enhanced_content_textbox, lines 565-569
BodyRegion(slide_width, slide_height) ==
    Region(SafeMargin, BodyTop, slide_width - (SafeMargin * 2),
           slide_height - BodyHeightAllowance)

\* _add_emphasis_content, lines 522-525: the same box on every slide
EmphasisRegion == Region(EmphasisLeft, EmphasisTop, EmphasisWidth, EmphasisHeight)

\* The regions _create_slide places on a slide with content; the emphasis
\* band only 'if emphasis_points'
PlacedRegions(slide_width, slide_height, has_emphasis) ==
    [body |-> BodyRegion(slide_width, slide_height),
     emphasis |-> IF has_emphasis THEN Some(EmphasisRegion) ELSE None]

\* Slide sizes a presentation can carry (ST_SlideSizeCoordinate, 1 to 56
\* inches): the bounds, 4:3 (10 by 7.5), 16:9 (10 by 5.625 and 13.333 by
\* 7.5), and sizes around the fixed offsets
SlideWidths == { 914400, 1463040, 1463041, 6858000, 9144000, 12192000, 51206400 }
SlideHeightsEmu == { 914400, 3840480, 3840481, 5143500, 6400800, 6858000, 51206400 }

InitRegion ==
    /\ fn_in \in [slide_width : SlideWidths, slide_height : SlideHeightsEmu,
                  has_emphasis : BOOLEAN]
    /\ fn_out = <<>>
    /\ fn_done = FALSE
    /\ DeckIdle
    /\ HandlerIdle

PlaceRegions ==
    /\ ~fn_done
    /\ fn_out' = PlacedRegions(fn_in.slide_width, fn_in.slide_height, fn_in.has_emphasis)
    /\ fn_done' = TRUE
    /\ UNCHANGED fn_in
    /\ UNCHANGED deckVars
    /\ UNCHANGED handlerVars

NextRegion == PlaceRegions

SpecRegion == InitRegion /\ [][NextRegion]_vars

\* The region lies inside the slide rectangle and is not empty
InsideSlide(region, slide_width, slide_height) ==
    /\ region.width > 0
    /\ region.height > 0
    /\ region.left >= 0
    /\ region.top >= 0
    /\ region.left + region.width <= slide_width
    /\ region.top + region.height <= slide_height

(* C24: for every slide width and height a template can supply, the text    *)
(* regions the composer places lie entirely inside the slide rectangle and  *)
(* have positive width and height: the body region (left 0.8 in, top 2.5    *)
(* in, width slideWidth - 1.6 in, height slideHeight - 4.2 in) and the      *)
(* emphasis band (left 1 in, top 6 in, 8 in wide, 1 in high).               *)
C24_RegionsInsideSlide ==
    fn_done =>
        /\ fn_out.body = Region(SafeMargin, BodyTop, fn_in.slide_width - 2 * SafeMargin,
                                fn_in.slide_height - BodyHeightAllowance)
        /\ InsideSlide(fn_out.body, fn_in.slide_width, fn_in.slide_height)
        /\ fn_out.emphasis # None =>
               /\ fn_out.emphasis[1] = Region(EmphasisLeft, EmphasisTop, EmphasisWidth,
                                              EmphasisHeight)
               /\ InsideSlide(fn_out.emphasis[1], fn_in.slide_width, fn_in.slide_height)

----------------------------------------------------------------------------
(* C25: an item longer than 180 characters is truncated by the fitter to    *)
(* 177 characters plus the 3-character ellipsis marker, so a truncated item *)
(* is exactly 180 characters long; an item of 180 characters or fewer is    *)
(* returned unchanged.                                                      *)
C25_TruncatedToBudget ==
    fn_done =>
        \A j \in 1..Len(fn_out) :
            /\ j <= Len(fn_in.content)
            /\ IF fn_in.content[j].len > MaxCharsPerItem
               THEN fn_out[j].len = MaxCharsPerItem
               ELSE fn_out[j] = fn_in.content[j]

----------------------------------------------------------------------------
\* The item at position j (from 1) of the written list is one the claim
\* says is split: among the first 4, longer than 80 characters once fitted,
\* and with a colon
SplitExpected(content, j) ==
    /\ j - 1 < SubPointMaxIndex
    /\ content[j].colon
    /\ TruncateItem(content[j]).len > SubPointMinLen

(* C26: when body items are written, each of the first 4 fitted items that  *)
(* is longer than 80 characters and contains a colon is written as two      *)
(* lines, the text up to and including the first colon and then the         *)
(* remainder as an indented continuation line, and no other item is split;  *)
(* this holds both when the body goes into a native placeholder and when it *)
(* goes into a synthesized text box.                                        *)
C26_ColonSplit ==
    fn_done =>
        \A j \in 1..Len(fn_out) :
            IF SplitExpected(fn_in.content, j)
            THEN Len(fn_out[j]) = 2 /\ fn_out[j][1] = ":"
            ELSE Len(fn_out[j]) = 1

----------------------------------------------------------------------------
(* PresentationGenerator._add_emphasis_content: the lines of the band *)

EmphasisAccent == <<180, 60, 0>>

\* The binary choice followed by the theme override of
\* _apply_high_contrast_color
EmphasisThemed(emphasis_points, colors, bg_colors) ==
    [j \in 1..Len(emphasis_points) |->
        [point |-> emphasis_points[j],
         color |-> IF colors.primary # None /\ IsColorDarkEnough(colors.primary[1])
                   THEN ApplyThemeAlways(colors, bg_colors, FALSE)
                   ELSE IF IsDarkBackground(bg_colors) THEN White ELSE EmphasisAccent]]

\* One paragraph per point, f-string of the marker and the point; every run
\* of it gets white or the accent (lines 549-554); colors is read at line
\* 546 and not used
AddEmphasisContent(emphasis_points, colors, bg_colors) ==
    [j \in 1..Len(emphasis_points) |->
        [point |-> emphasis_points[j],
         color |-> IF IsDarkBackground(bg_colors) THEN White ELSE EmphasisAccent]]

MaxPoints == 2

\* Emphasis points: a short text, an empty text, a number
EmphasisPoints == UNION { [1..n -> {StrItem(20), StrItem(0), NumItem}] : n \in 0..MaxPoints }

InitEmphasis ==
    /\ fn_in \in [emphasis_points : EmphasisPoints,
                  colors : [primary : {None} \cup {Some(c) : c \in PrimaryColors}],
                  bg_colors : [primary : {None} \cup {Some(c) : c \in BackgroundColors}]]
    /\ fn_out = <<>>
    /\ fn_done = FALSE
    /\ DeckIdle
    /\ HandlerIdle

WriteEmphasis ==
    /\ ~fn_done
    /\ fn_out' = AddEmphasisContent(fn_in.emphasis_points, fn_in.colors, fn_in.bg_colors)
    /\ fn_done' = TRUE
    /\ UNCHANGED fn_in
    /\ UNCHANGED deckVars
    /\ UNCHANGED handlerVars

NextEmphasis == WriteEmphasis

SpecEmphasis == InitEmphasis /\ [][NextEmphasis]_vars

(* C27: the colour of every emphasis line is a binary choice: white         *)
(* (255,255,255) when the background is dark and the fixed dark accent      *)
(* (180,60,0) otherwise; the theme primary colour is never applied to       *)
(* emphasis text, whatever its value.                                       *)
C27_EmphasisBinaryColor ==
    fn_done =>
        /\ Len(fn_out) = Len(fn_in.emphasis_points)
        /\ \A j \in 1..Len(fn_out) :
               /\ fn_out[j].color \in {<<255, 255, 255>>, <<180, 60, 0>>}
               /\ fn_out[j].color = <<255, 255, 255>> <=> IsDarkBackground(fn_in.bg_colors)

\* Emphasis lines on a light background with a dark theme primary colour,
\* which the body text would take over, and on a dark background
C27_Witness ==
    /\ fn_done
    /\ Len(fn_out) = MaxPoints
    /\ fn_in.colors.primary # None
    /\ IsColorDarkEnough(fn_in.colors.primary[1])
    /\ ~IsDarkBackground(fn_in.bg_colors)
    /\ ApplyHighContrastColor(fn_in.colors, fn_in.bg_colors, FALSE) \notin {White, BodyDark}
    /\ \A j \in 1..Len(fn_out) : fn_out[j].color = EmphasisAccent

----------------------------------------------------------------------------
(* TemplateAnalyzer._extract_fonts run by run.  A slide is the sequence of  *)
(* its shapes with a text frame, a shape the sequence of its paragraphs, a  *)
(* paragraph the sequence of the font names of its runs (None: the run      *)
(* inherits its font).                                                      *)

\* for run in paragraph.runs: if run.font.name: ...; break
RECURSIVE FirstNamedRun(_, _)
FirstNamedRun(runs, pos) ==
    IF pos > Len(runs) THEN None
    ELSE IF runs[pos] # None THEN runs[pos]
    ELSE FirstNamedRun(runs, pos + 1)

\* for paragraph in shape.text_frame.paragraphs: the break of line 138
\* leaves the run loop only, so a later paragraph assigns fonts['body'] again
RECURSIVE LastNamedParagraph(_, _)
LastNamedParagraph(paragraphs, pos) ==
    IF pos = 0 THEN None
    ELSE IF FirstNamedRun(paragraphs[pos], 1) # None THEN FirstNamedRun(paragraphs[pos], 1)
    ELSE LastNamedParagraph(paragraphs, pos - 1)

\* The shapes as _extract_fonts sees them: each names the font its loops
\* assign last, or none
ShapesOfRuns(slide) ==
    [j \in 1..Len(slide) |-> Shape("none", LastNamedParagraph(slide[j], Len(slide[j])))]

MaxRuns == 2

RunFonts == { None, Some("Georgia"), Some("Arial") }
Paragraphs == UNION { [1..n -> RunFonts] : n \in 0..MaxRuns }
TextShapes == UNION { [1..n -> Paragraphs] : n \in 1..MaxRuns }
FontSlides == UNION { [1..n -> TextShapes] : n \in 0..MaxShapes }

InitFonts ==
    /\ fn_in \in FontSlides
    /\ fn_out = <<>>
    /\ fn_done = FALSE
    /\ DeckIdle
    /\ HandlerIdle

ReadFonts ==
    /\ ~fn_done
    /\ fn_out' = ExtractFonts(ShapesOfRuns(fn_in))
    /\ fn_done' = TRUE
    /\ UNCHANGED fn_in
    /\ UNCHANGED deckVars
    /\ UNCHANGED handlerVars

NextFonts == ReadFonts

SpecFonts == InitFonts /\ [][NextFonts]_vars

\* The font names of the slide's runs in reading order: shapes, then
\* paragraphs, then runs
RECURSIVE Flatten(_)
Flatten(seqs) == IF Len(seqs) = 0 THEN <<>> ELSE Head(seqs) \o Flatten(Tail(seqs))

RunsInOrder(slide) == Flatten([j \in 1..Len(slide) |-> Flatten(slide[j])])

(* C28: the profile's title and body font families are the font name of the *)
(* first text run that carries a font name on the template's first slide,   *)
(* scanning shapes, paragraphs and runs in order; the default family        *)
(* Calibri is used only when no run on that slide carries a font name.      *)
C28_FirstRunFont ==
    fn_done =>
        LET first == FirstNamedRun(RunsInOrder(fn_in), 1)
            expected == IF first = None THEN DefaultFont ELSE first[1]
        IN  fn_out.title = expected /\ fn_out.body = expected

----------------------------------------------------------------------------
(* C29: for every slide type (recognized or not) and every layout catalog,  *)
(* get_best_layout_for_slide_type returns an index i with 0 <= i < count    *)
(* when the catalog is non-empty and 0 when it is empty; with a             *)
(* single-layout catalog every slide type resolves to index 0.              *)
C29_LayoutIndexInRange ==
    fn_done =>
        /\ Len(fn_in.layouts) > 0 => (0 <= fn_out /\ fn_out < Len(fn_in.layouts))
        /\ Len(fn_in.layouts) = 0 => fn_out = 0
        /\ Len(fn_in.layouts) = 1 => fn_out = 0

\* A single layout that matches no keyword of the type: the fallback
\* min(1, count - 1) gives 0
C29_Witness ==
    /\ fn_done
    /\ Len(fn_in.layouts) = 1
    /\ fn_in.slide_type \in {"content", "comparison", "overview"}
    /\ MatchingPositions(fn_in.layouts, fn_in.slide_type) = {}
    /\ fn_out = 0

----------------------------------------------------------------------------
\* The slides a step added
AddedPositions == { k \in 1..Len(Slides') : k > Len(Slides) }

(* C30: during a deck build images are consumed strictly in the order       *)
(* supplied and each at most once: the k-th image insertion uses the k-th   *)
(* image, the image cursor never decreases and never exceeds the number of  *)
(* images, and the cursor advances by one at every insertion attempt        *)
(* whether or not the image ended up on a slide, so an image whose          *)
(* insertion failed is not retried on a later slide.                        *)
C30_ImagesInOrder ==
    [][ /\ image_index' \in {image_index, image_index + 1}
        /\ image_index' <= Len(user_images)
        /\ image_index' = image_index + 1
               <=> (pc = "building" /\ loop_i' = loop_i + 1 /\ DueAt(loop_i + 1))
        /\ \A k \in AddedPositions :
               Slides'[k].origin = "image" =>
                   /\ image_index' = image_index + 1
                   /\ Slides'[k].image = image_index' ]_vars

\* A finished build that consumed two images: the insertion of the first,
\* unreadable one put no picture on a slide, and the slide after position 6
\* shows the second image
C30_Witness ==
    /\ pc = "done"
    /\ image_index = 2
    /\ ~user_images[1].readable
    /\ \A k \in ImageSlidePositions : Slides[k].picture => Slides[k].image = 2
    /\ \E k \in ImageSlidesAfter(6) : Slides[k].picture /\ Slides[k].image = 2

====
